---- MODULE Spec2Model ----
(***************************************************************************)
(* axum-valid: validating decorators (Valid, ValidEx, Garde, Validated,    *)
(* Modified, Validified, ValidifiedByRef) around an inner extractor.       *)
(* One request slot runs from_request: the arguments are read from the     *)
(* router state, the inner extractor is awaited, then the value is         *)
(* projected, (modified,) validated and wrapped, or a rejection is built   *)
(* and turned into an HTTP response.                                       *)
(***************************************************************************)
EXTENDS Integers, Sequences, FiniteSets, TLC

VARIABLES features, state, pc, req, arguments, extracted, result, response, steps,
          unit_v, unit_inner, unit_out

\* the router, its features and the request slots
request_vars == <<features, state, pc, req, arguments, extracted, result, response, steps>>

\* the wrapper `v`, the string `inner` and the value into_inner() returned in
\* the unit tests of the wrappers
unit_vars == <<unit_v, unit_inner, unit_out>>

vars == <<request_vars, unit_vars>>

(***************************************************************************)
(* Bounds of the model                                                     *)
(***************************************************************************)
\* values of v0 are drawn from (V0_MIN - Margin)..(V0_MAX + Margin)
Margin == 1
\* longest generated string
MaxStrLen == 11

(***************************************************************************)
(* HTTP status codes                                                       *)
(***************************************************************************)
OK == 200
BAD_REQUEST == 400
FORBIDDEN == 403
NOT_FOUND == 404
CONFLICT == 409
IM_A_TEAPOT == 418
UNPROCESSABLE_ENTITY == 422
INTERNAL_SERVER_ERROR == 500

\* rules declared on the test parameter structs
V0_MIN == 5
V0_MAX == 10
V1_MIN == 1
V1_MAX == 10

(***************************************************************************)
(* Values: Option, strings as sequences of characters                      *)
(***************************************************************************)
None == <<>>
Some(x) == <<x>>
IsSome(o) == Len(o) = 1
Unwrap(o) == o[1]

Rep(c, n) == [i \in 1..n |-> c]

UpperChars == <<"A", "B", "C", "D", "E", "F", "G", "H", "I", "J", "K", "L", "M", "N">>
LowerChars == <<"a", "b", "c", "d", "e", "f", "g", "h", "i", "j", "k", "l", "m", "n">>

ToLowerChar(c) ==
    IF \E i \in 1..Len(UpperChars) : UpperChars[i] = c
    THEN LowerChars[CHOOSE i \in 1..Len(UpperChars) : UpperChars[i] = c]
    ELSE c

to_lowercase(s) == [i \in 1..Len(s) |-> ToLowerChar(s[i])]

\* the strings of the test parameters
Digits10 == <<"0", "1", "2", "3", "4", "5", "6", "7", "8", "9">>
Digits11 == Digits10 \o <<"0">>
ABCDEFG == SubSeq(UpperChars, 1, 7)
ABCDEFGHIJKLMN == UpperChars

StrLens == {0, V1_MIN} \cup (V1_MAX..MaxStrLen)

Strings ==
    {Rep("a", n) : n \in StrLens}
        \cup {Rep("A", MaxStrLen), <<"a", "B">>}
        \cup {Digits10, Digits11, ABCDEFG, ABCDEFGHIJKLMN}

V0Values == (V0_MIN - Margin)..(V0_MAX + Margin)

Parameters(v0, v1) == [v0 |-> v0, v1 |-> v1]

VALID_PARAMETERS == Parameters(5, Digits10)
INVALID_PARAMETERS == Parameters(6, Digits11)
VALID_PARAMETERS_VALIDIFY == Parameters(5, ABCDEFG)
INVALID_PARAMETERS_VALIDIFY == Parameters(6, ABCDEFGHIJKLMN)

(***************************************************************************)
(* Validation routines of the parameter structs.  A report is the          *)
(* sequence of violated fields, in field order, with the code of the rule. *)
(***************************************************************************)
Violation(field, code) == [field |-> field, code |-> code]

InRange(x, range) == range[1] <= x /\ x <= range[2]

Collect(bad0, e0, bad1, e1) ==
    (IF bad0 THEN <<e0>> ELSE <<>>) \o (IF bad1 THEN <<e1>> ELSE <<>>)

\* mutant: the lower bound of the range is exclusive
ParametersValidate_ExclusiveMin(p) ==
    Collect(~(V0_MIN < p.v0 /\ p.v0 <= V0_MAX), Violation("v0", "range"),
            ~InRange(Len(p.v1), <<V1_MIN, V1_MAX>>), Violation("v1", "length"))

\* #[validate(range(min = 5, max = 10))] v0, #[validate(length(min = 1, max = 10))] v1
ParametersValidate(p) ==
    Collect(~InRange(p.v0, <<V0_MIN, V0_MAX>>), Violation("v0", "range"),
            ~InRange(Len(p.v1), <<V1_MIN, V1_MAX>>), Violation("v1", "length"))

\* validate_v0 / validate_v1 with the arguments of the router state
validate_v0(v, args) == InRange(v, args.v0_range)
validate_v1(v, args) == InRange(Len(v), args.v1_length_range)

ParametersExValidateArgs(p, args) ==
    Collect(~validate_v0(p.v0, args), Violation("v0", "v0 is out of range"),
            ~validate_v1(p.v1, args), Violation("v1", "v1 is invalid"))

\* #[garde(range(min = 5, max = 10))] v0, #[garde(length(min = 1, max = 10))] v1; context ()
ParametersGardeValidate(p, ctx) ==
    Collect(~InRange(p.v0, <<V0_MIN, V0_MAX>>), Violation("v0", "range"),
            ~InRange(Len(p.v1), <<V1_MIN, V1_MAX>>), Violation("v1", "length"))

\* validify: #[validate(range(min = 5.0, max = 10.0))] v0,
\* #[modify(lowercase)] #[validate(length(min = 1, max = 10))] v1
ParametersValidifyValidate(p) ==
    Collect(~InRange(p.v0, <<V0_MIN, V0_MAX>>), Violation("v0", "range"),
            ~InRange(Len(p.v1), <<V1_MIN, V1_MAX>>), Violation("v1", "length"))

ParametersValidifyModify(p) == [p EXCEPT !.v1 = to_lowercase(p.v1)]

\* the Payload derive: every field optional on the wire, required by validation
PayloadValidate(payload) ==
    Collect(~IsSome(payload.v0), Violation("v0", "required"),
            ~IsSome(payload.v1), Violation("v1", "required"))

PayloadInto(payload) == Parameters(Unwrap(payload.v0), Unwrap(payload.v1))

(***************************************************************************)
(* Inner extractors: axum's Json / Query around the parameters, and        *)
(* axum_extra's Cached / WithRejection around the parameters read from a   *)
(* header                                                                  *)
(***************************************************************************)
SerdeExtractors == {"Json", "Query"}
ExtraExtractors == {"Cached", "WithRejection"}
Extractors == SerdeExtractors \cup ExtraExtractors

\* the rejection of the parameters' own extractor
CACHED_REJECTION_STATUS == FORBIDDEN

\* status of the inner extractor's own rejection (ValidTest::ERROR_STATUS_CODE)
ERROR_STATUS_CODE(ext) ==
    CASE ext = "Json" -> UNPROCESSABLE_ENTITY
      [] ext = "Query" -> BAD_REQUEST
      [] ext = "Cached" -> CACHED_REJECTION_STATUS
      [] ext = "WithRejection" -> CONFLICT

Ok(x) == [tag |-> "Ok", val |-> x]
Err(e) == [tag |-> "Err", val |-> e]

\* a request body: unparseable, or a set of fields some of which may be missing
Bodies ==
    {[wellformed |-> FALSE, v0 |-> None, v1 |-> None]}
        \cup {[wellformed |-> TRUE, v0 |-> a, v1 |-> b] :
                a \in {None} \cup {Some(x) : x \in V0Values},
                b \in {None} \cup {Some(x) : x \in Strings}}

BodyOf(p) == [wellformed |-> TRUE, v0 |-> Some(p.v0), v1 |-> Some(p.v1)]

InnerRejection(ext, cause) == [ext |-> ext, cause |-> cause]


\* what an extractor value carries besides its data field: WithRejection<T, R>
\* is the pair (T, PhantomData<R>), the other extractors are T alone
PhantomData == "PhantomData"
Metadata(ext) == IF ext = "WithRejection" THEN Some(PhantomData) ELSE None
Extractor(ext, data) == [ext |-> ext, f0 |-> data, f1 |-> Metadata(ext)]

\* Extractor::from_request for Ext<Parameters>: every field is required
FromRequestData(ext, body) ==
    IF ~body.wellformed THEN Err(InnerRejection(ext, "syntax"))
    ELSE IF ~IsSome(body.v0) \/ ~IsSome(body.v1) THEN Err(InnerRejection(ext, "data"))
    ELSE Ok(Extractor(ext, Parameters(Unwrap(body.v0), Unwrap(body.v1))))

\* PayloadExtractor::from_request for Ext<Payload>: every field is optional
FromRequestPayload(ext, body) ==
    IF ~body.wellformed THEN Err(InnerRejection(ext, "syntax"))
    ELSE Ok(Extractor(ext, [v0 |-> body.v0, v1 |-> body.v1]))

\* the capability traits: the data field of the extractor
get_validate(inner) == inner.f0
get_validate_args(inner) == inner.f0
get_modify(inner) == inner.f0
get_payload(inner) == inner.f0
from_validify(ext, v) == Extractor(ext, v)


\* mutant: get_modify hands out a copy of the data, the extractor keeps its own
ModifyInPlace_Copy(inner) == inner

\* inner.get_modify().modify(): the data field is modified in place
ModifyInPlace(inner) == [inner EXCEPT !.f0 = ParametersValidifyModify(get_modify(inner))]

\* ValidifyPayload::validify_from: validate the payload, construct, modify, validate
validify_from(payload) ==
    IF PayloadValidate(payload) # <<>> THEN Err(PayloadValidate(payload))
    ELSE LET v == ParametersValidifyModify(PayloadInto(payload))
         IN  IF ParametersValidifyValidate(v) # <<>>
             THEN Err(ParametersValidifyValidate(v))
             ELSE Ok(v)

(***************************************************************************)
(* Router state and compile-time features                                  *)
(***************************************************************************)
ValidationArguments(r0, r1) == [v0_range |-> r0, v1_length_range |-> r1]

\* ParametersExValidationArgumentsInner::default()
DefaultArguments == ValidationArguments(<<V0_MIN, V0_MAX>>, <<V1_MIN, V1_MAX>>)

\* arguments a router may be built with
ArgumentsSet ==
    {DefaultArguments,
     ValidationArguments(<<V0_MIN - Margin, V0_MAX + Margin>>, <<0, MaxStrLen>>)}

\* the unit argument ()
Unit == [unit |-> TRUE]

ResponseBuilders == {"default", "string", "json", "custom"}

ValidationContext(builder, args) == [response_builder |-> builder, arguments |-> args]

\* ValidationContext::<()>::custom / string / json and Default::default
custom(response_builder) == ValidationContext(response_builder, Unit)
string == ValidationContext("string", Unit)
json == ValidationContext("json", Unit)
default == ValidationContext("default", Unit)

\* ValidationContext::with_arguments
with_arguments(ctx, args) == ValidationContext(ctx.response_builder, args)

\* the context a router is given for a builder of the library or of the user
NewContext(builder) ==
    CASE builder = "custom" -> custom("custom")
      [] builder = "string" -> string
      [] builder = "json" -> json
      [] builder = "default" -> default

\* mutant: the new context starts from the default context
without_arguments_ResetsBuilder(ctx) == default

\* ValidationContext::without_arguments
without_arguments(ctx) == ValidationContext(ctx.response_builder, Unit)

\* mutant: the cfg attributes of the two constants are swapped
VALIDATION_ERROR_STATUS_Swapped ==
    IF features.f422 THEN BAD_REQUEST ELSE UNPROCESSABLE_ENTITY

VALIDATION_ERROR_STATUS == IF features.f422 THEN UNPROCESSABLE_ENTITY ELSE BAD_REQUEST

(***************************************************************************)
(* Responses                                                               *)
(***************************************************************************)
TEXT_PLAIN == "text/plain; charset=utf-8"
APPLICATION_JSON == "application/json"

Response(status, ctype, body) == [status |-> status, content_type |-> ctype, body |-> body]

Reverse(s) == [i \in 1..Len(s) |-> s[Len(s) + 1 - i]]


\* mutant: only the first entry in the report's iteration order is written
to_string_FirstInOrder(report, flip) ==
    [format |-> "text",
     entries |-> IF report = <<>> THEN <<>>
                 ELSE IF flip THEN <<report[Len(report)]>> ELSE <<report[1]>>]

\* ve.to_string(): one line per entry of the report, in the report's iteration order
to_string(report, flip) ==
    [format |-> "text", entries |-> IF flip THEN Reverse(report) ELSE report]

\* axum::Json(ve): the report serialized as a JSON object
Json(report, flip) ==
    [format |-> "json", entries |-> IF flip THEN Reverse(report) ELSE report]

EmptyBody == [format |-> "text", entries |-> <<>>]

\* (status, String).into_response() / (status, Json(..)).into_response()
StringIntoResponse(status, body) == Response(status, TEXT_PLAIN, body)
JsonIntoResponse(status, body) == Response(status, APPLICATION_JSON, body)

\* the inner extractor's own rejection response
InnerIntoResponse(e) ==
    StringIntoResponse(ERROR_STATUS_CODE(e.ext),
                       [format |-> "text", entries |-> <<Violation(e.ext, e.cause)>>])

string_response_builder(ve, flip) ==
    StringIntoResponse(VALIDATION_ERROR_STATUS, to_string(ve, flip))

json_response_builder(ve, flip) ==
    JsonIntoResponse(VALIDATION_ERROR_STATUS, Json(ve, flip))

\* the builder of ValidationContext::default()
default_response_builder(ve, flip) ==
    IF features.into_json THEN json_response_builder(ve, flip)
    ELSE string_response_builder(ve, flip)

\* a user's builder given to ValidationContext::custom
custom_response(ve, flip) == JsonIntoResponse(NOT_FOUND, Json(ve, flip))

ApplyBuilder(builder, ve, flip) ==
    CASE builder = "default" -> default_response_builder(ve, flip)
      [] builder = "string" -> string_response_builder(ve, flip)
      [] builder = "json" -> json_response_builder(ve, flip)
      [] builder = "custom" -> custom_response(ve, flip)

\* mutant: only the first entry of the report is rendered
response_builder_FirstOnly(ve, flip) ==
    IF features.into_json
    THEN JsonIntoResponse(VALIDATION_ERROR_STATUS, Json(SubSeq(ve, 1, 1), flip))
    ELSE StringIntoResponse(VALIDATION_ERROR_STATUS, to_string(SubSeq(ve, 1, 1), flip))

\* validator.rs response_builder
response_builder(ve, flip) ==
    IF features.into_json
    THEN JsonIntoResponse(VALIDATION_ERROR_STATUS, Json(ve, flip))
    ELSE StringIntoResponse(VALIDATION_ERROR_STATUS, to_string(ve, flip))

\* mutant: the cfg attributes of the two branches are swapped
garde_response_builder_Swapped(ve) ==
    IF ~features.into_json
    THEN JsonIntoResponse(VALIDATION_ERROR_STATUS, Json(ve, FALSE))
    ELSE StringIntoResponse(VALIDATION_ERROR_STATUS, to_string(ve, FALSE))

\* garde.rs response_builder
garde_response_builder(ve) ==
    IF features.into_json
    THEN JsonIntoResponse(VALIDATION_ERROR_STATUS, Json(ve, FALSE))
    ELSE StringIntoResponse(VALIDATION_ERROR_STATUS, to_string(ve, FALSE))

(***************************************************************************)
(* Rejections                                                              *)
(***************************************************************************)
Rejection(variant, err) == [variant |-> variant, err |-> err]

\* mutant: the Inner variant is answered with the validation status
ValidRejectionIntoResponse_InnerStatus(rej, flip) ==
    IF rej.variant = "Valid" THEN response_builder(rej.err, flip)
    ELSE [InnerIntoResponse(rej.err) EXCEPT !.status = VALIDATION_ERROR_STATUS]

\* Display of the inner extractor's rejection
InnerDisplay(e) == [format |-> "text", entries |-> <<Violation(e.ext, e.cause)>>]

\* impl Display for ValidRejection / GardeRejection: write!(f, "{errors}") or
\* write!(f, "{error}")
fmt(rej, flip) ==
    IF rej.variant = "Inner" THEN InnerDisplay(rej.err) ELSE to_string(rej.err, flip)

\* mutant: the Inner variant has no source
source_ValidationOnly(rej) ==
    IF rej.variant = "Inner" THEN None ELSE Some(rej.err)

\* impl Error for ValidRejection / GardeRejection: Some(ve) or Some(e)
source(rej) ==
    IF rej.variant = "Inner" THEN Some(rej.err) ELSE Some(rej.err)

\* impl IntoResponse for validator::ValidRejection
ValidRejectionIntoResponse(rej, flip) ==
    IF rej.variant = "Valid" THEN response_builder(rej.err, flip)
    ELSE InnerIntoResponse(rej.err)

\* impl IntoResponse for GardeRejection
GardeRejectionIntoResponse(rej) ==
    IF rej.variant = "Report" THEN garde_response_builder(rej.err)
    ELSE InnerIntoResponse(rej.err)

\* the validation-failure response of ValidationRejection<V, E>
validation_rejection_response(ve) ==
    IF features.into_json
    THEN JsonIntoResponse(VALIDATION_ERROR_STATUS, Json(ve, FALSE))
    ELSE StringIntoResponse(VALIDATION_ERROR_STATUS, to_string(ve, FALSE))

\* impl IntoResponse for ValidationRejection<validify::ValidationErrors, E>
ValidifyRejectionIntoResponse(rej) ==
    IF rej.variant = "Valid" THEN validation_rejection_response(rej.err)
    ELSE InnerIntoResponse(rej.err)

\* impl IntoResponse for the ValidRejection of lib.rs, which carries the builder
ContextRejectionIntoResponse(rej, flip) ==
    IF rej.variant = "Valid" THEN ApplyBuilder(rej.response_builder, rej.err, flip)
    ELSE InnerIntoResponse(rej.err)

(***************************************************************************)
(* The decorators' from_request, after the inner extractor has completed.  *)
(* ex is the inner extractor's result; the outcome is the Result returned  *)
(* and the calls made, in order.                                           *)
(***************************************************************************)
Decorators ==
    {"Valid", "ValidEx", "Garde", "Validated", "Modified", "Validified",
     "ValidifiedByRef", "ContextValid", "ContextValidEx"}

ValidatorDecorators == {"Valid", "ValidEx", "ContextValid", "ContextValidEx"}
ValidifyDecorators == {"Validated", "Validified", "ValidifiedByRef"}
ArgumentDecorators == {"ValidEx", "Garde", "ContextValid", "ContextValidEx"}

Wrapper(dec, inner, args) == [wrapper |-> dec, f0 |-> inner, f1 |-> args]

\* Arguments::get / GardeArgument::get of the tests' argument types: the rules
\* take a reference to the arguments value itself
get(args) == args

\* ValidEx::arguments / Garde::arguments: self.1.get()
wrapper_arguments(w) == get(Unwrap(w.f1))

Outcome(res, trace) == [res |-> res, trace |-> trace]

\* mutant: the inner extractor's failure is reported as a validation failure
ValidFromRequest_InnerAsValid(ex) ==
    IF ex.tag = "Err" THEN Outcome(Err(Rejection("Valid", <<>>)), <<"map_err">>)
    ELSE LET inner == ex.val
             ve == ParametersValidate(get_validate(inner))
         IN  IF ve # <<>>
             THEN Outcome(Err(Rejection("Valid", ve)), <<"get_validate", "validate">>)
             ELSE Outcome(Ok(Wrapper("Valid", inner, None)),
                          <<"get_validate", "validate", "wrap">>)

\* validator.rs: impl FromRequest for Valid
ValidFromRequest(ex) ==
    IF ex.tag = "Err" THEN Outcome(Err(Rejection("Inner", ex.val)), <<"map_err">>)
    ELSE LET inner == ex.val
             ve == ParametersValidate(get_validate(inner))
         IN  IF ve # <<>>
             THEN Outcome(Err(Rejection("Valid", ve)), <<"get_validate", "validate">>)
             ELSE Outcome(Ok(Wrapper("Valid", inner, None)),
                          <<"get_validate", "validate", "wrap">>)

\* mutant: the arguments of the state are ignored, the defaults are used
ValidExFromRequest_DefaultArguments(ex, args) ==
    IF ex.tag = "Err" THEN Outcome(Err(Rejection("Inner", ex.val)), <<"map_err">>)
    ELSE LET inner == ex.val
             ve == ParametersExValidateArgs(get_validate_args(inner), DefaultArguments)
         IN  IF ve # <<>>
             THEN Outcome(Err(Rejection("Valid", ve)),
                          <<"get_validate_args", "validate_args">>)
             ELSE Outcome(Ok(Wrapper("ValidEx", inner, args)),
                          <<"get_validate_args", "validate_args", "wrap">>)

\* mutant: the wrapper is built with default arguments, not those validated with
ValidExFromRequest_WrapsDefault(ex, args) ==
    IF ex.tag = "Err" THEN Outcome(Err(Rejection("Inner", ex.val)), <<"map_err">>)
    ELSE LET inner == ex.val
             ve == ParametersExValidateArgs(get_validate_args(inner), get(Unwrap(args)))
         IN  IF ve # <<>>
             THEN Outcome(Err(Rejection("Valid", ve)),
                          <<"get_validate_args", "validate_args">>)
             ELSE Outcome(Ok(Wrapper("ValidEx", inner, Some(DefaultArguments))),
                          <<"get_validate_args", "validate_args", "wrap">>)

\* validator.rs: impl FromRequest for ValidEx
ValidExFromRequest(ex, args) ==
    IF ex.tag = "Err" THEN Outcome(Err(Rejection("Inner", ex.val)), <<"map_err">>)
    ELSE LET inner == ex.val
             ve == ParametersExValidateArgs(get_validate_args(inner), get(Unwrap(args)))
         IN  IF ve # <<>>
             THEN Outcome(Err(Rejection("Valid", ve)),
                          <<"get_validate_args", "validate_args">>)
             ELSE Outcome(Ok(Wrapper("ValidEx", inner, args)),
                          <<"get_validate_args", "validate_args", "wrap">>)

\* mutant: the result of validate() is dropped instead of propagated with `?`
GardeFromRequest_IgnoresReport(ex, args) ==
    IF ex.tag = "Err" THEN Outcome(Err(Rejection("Inner", ex.val)), <<"map_err">>)
    ELSE Outcome(Ok(Wrapper("Garde", ex.val, args)),
                 <<"get_validate", "validate", "wrap">>)

\* mutant: a failed validation is run a second time before it is reported
GardeFromRequest_Retries(ex, args) ==
    IF ex.tag = "Err" THEN Outcome(Err(Rejection("Inner", ex.val)), <<"map_err">>)
    ELSE LET inner == ex.val
             ve == ParametersGardeValidate(get_validate(inner), get(Unwrap(args)))
         IN  IF ve # <<>>
             THEN Outcome(Err(Rejection("Report", ve)),
                          <<"get_validate", "validate", "get_validate", "validate">>)
             ELSE Outcome(Ok(Wrapper("Garde", inner, args)),
                          <<"get_validate", "validate", "wrap">>)

\* garde.rs: impl FromRequest for Garde
GardeFromRequest(ex, args) ==
    IF ex.tag = "Err" THEN Outcome(Err(Rejection("Inner", ex.val)), <<"map_err">>)
    ELSE LET inner == ex.val
             ve == ParametersGardeValidate(get_validate(inner), get(Unwrap(args)))
         IN  IF ve # <<>>
             THEN Outcome(Err(Rejection("Report", ve)), <<"get_validate", "validate">>)
             ELSE Outcome(Ok(Wrapper("Garde", inner, args)),
                          <<"get_validate", "validate", "wrap">>)


\* mutant: Validated wraps a value rebuilt from the data field alone
ValidatedFromRequest_DropsMetadata(ex) ==
    IF ex.tag = "Err" THEN Outcome(Err(Rejection("Inner", ex.val)), <<"map_err">>)
    ELSE LET inner == ex.val
             ve == ParametersValidifyValidate(get_validate(inner))
         IN  IF ve # <<>>
             THEN Outcome(Err(Rejection("Valid", ve)), <<"get_validate", "validate">>)
             ELSE Outcome(Ok(Wrapper("Validated", [inner EXCEPT !.f1 = None], None)),
                          <<"get_validate", "validate", "wrap">>)

\* mutant: Validated modifies the value like ValidifiedByRef does
ValidatedFromRequest_Modifies(ex) ==
    IF ex.tag = "Err" THEN Outcome(Err(Rejection("Inner", ex.val)), <<"map_err">>)
    ELSE LET inner == ModifyInPlace(ex.val)
             ve == ParametersValidifyValidate(get_validate(inner))
         IN  IF ve # <<>>
             THEN Outcome(Err(Rejection("Valid", ve)), <<"get_validate", "validate">>)
             ELSE Outcome(Ok(Wrapper("Validated", inner, None)),
                          <<"get_validate", "validate", "wrap">>)

\* validify.rs: impl FromRequest for Validated
ValidatedFromRequest(ex) ==
    IF ex.tag = "Err" THEN Outcome(Err(Rejection("Inner", ex.val)), <<"map_err">>)
    ELSE LET inner == ex.val
             ve == ParametersValidifyValidate(get_validate(inner))
         IN  IF ve # <<>>
             THEN Outcome(Err(Rejection("Valid", ve)), <<"get_validate", "validate">>)
             ELSE Outcome(Ok(Wrapper("Validated", inner, None)),
                          <<"get_validate", "validate", "wrap">>)

\* mutant: Modified validates after modifying, like ValidifiedByRef
ModifiedFromRequest_Validates(ex) ==
    IF ex.tag = "Err" THEN Outcome(Err(ex.val), <<>>)
    ELSE LET inner == ModifyInPlace(ex.val)
             ve == ParametersValidifyValidate(get_validate(inner))
         IN  IF ve # <<>>
             THEN Outcome(Err(Rejection("Valid", ve)),
                          <<"get_modify", "modify", "get_validate", "validate">>)
             ELSE Outcome(Ok(Wrapper("Modified", inner, None)),
                          <<"get_modify", "modify", "get_validate", "validate", "wrap">>)

\* mutant: Modified wraps the value without calling modify()
ModifiedFromRequest_NoModify(ex) ==
    IF ex.tag = "Err" THEN Outcome(Err(ex.val), <<>>)
    ELSE Outcome(Ok(Wrapper("Modified", ex.val, None)), <<"wrap">>)

\* validify.rs: impl FromRequest for Modified; the rejection is the inner one
ModifiedFromRequest(ex) ==
    IF ex.tag = "Err" THEN Outcome(Err(ex.val), <<>>)
    ELSE Outcome(Ok(Wrapper("Modified", ModifyInPlace(ex.val), None)),
                 <<"get_modify", "modify", "wrap">>)

\* mutant: a payload with missing fields is reported as an inner failure
ValidifiedFromRequest_MissingAsInner(ex) ==
    IF ex.tag = "Err" THEN Outcome(Err(Rejection("Inner", ex.val)), <<"map_err">>)
    ELSE LET payload == get_payload(ex.val)
             validify == validify_from(payload)
         IN  IF PayloadValidate(payload) # <<>>
             THEN Outcome(Err(Rejection("Inner", InnerRejection(ex.val.ext, "data"))),
                          <<"get_payload", "map_err">>)
             ELSE IF validify.tag = "Err"
             THEN Outcome(Err(Rejection("Valid", validify.val)),
                          <<"get_payload", "validify_from">>)
             ELSE Outcome(Ok(Wrapper("Validified",
                                     from_validify(ex.val.ext, validify.val), None)),
                          <<"get_payload", "validify_from", "from_validify", "wrap">>)

\* validify.rs: impl FromRequest for Validified; ex is the payload extractor's result
ValidifiedFromRequest(ex) ==
    IF ex.tag = "Err" THEN Outcome(Err(Rejection("Inner", ex.val)), <<"map_err">>)
    ELSE LET payload == get_payload(ex.val)
             validify == validify_from(payload)
         IN  IF validify.tag = "Err"
             THEN Outcome(Err(Rejection("Valid", validify.val)),
                          <<"get_payload", "validify_from">>)
             ELSE Outcome(Ok(Wrapper("Validified",
                                     from_validify(ex.val.ext, validify.val), None)),
                          <<"get_payload", "validify_from", "from_validify", "wrap">>)

\* mutant: the result of validate() is dropped instead of propagated with `?`
ValidifiedByRefFromRequest_IgnoresReport(ex) ==
    IF ex.tag = "Err" THEN Outcome(Err(Rejection("Inner", ex.val)), <<"map_err">>)
    ELSE Outcome(Ok(Wrapper("ValidifiedByRef", ModifyInPlace(ex.val), None)),
                 <<"get_modify", "modify", "get_validate", "validate", "wrap">>)

\* mutant: the value is validated as extracted and modified afterwards
ValidifiedByRefFromRequest_ValidatesFirst(ex) ==
    IF ex.tag = "Err" THEN Outcome(Err(Rejection("Inner", ex.val)), <<"map_err">>)
    ELSE LET ve == ParametersValidifyValidate(get_validate(ex.val))
         IN  IF ve # <<>>
             THEN Outcome(Err(Rejection("Valid", ve)), <<"get_validate", "validate">>)
             ELSE Outcome(Ok(Wrapper("ValidifiedByRef", ModifyInPlace(ex.val), None)),
                          <<"get_validate", "validate", "get_modify", "modify", "wrap">>)

\* validify.rs: impl FromRequest for ValidifiedByRef
ValidifiedByRefFromRequest(ex) ==
    IF ex.tag = "Err" THEN Outcome(Err(Rejection("Inner", ex.val)), <<"map_err">>)
    ELSE LET inner == ModifyInPlace(ex.val)
             ve == ParametersValidifyValidate(get_validate(inner))
         IN  IF ve # <<>>
             THEN Outcome(Err(Rejection("Valid", ve)),
                          <<"get_modify", "modify", "get_validate", "validate">>)
             ELSE Outcome(Ok(Wrapper("ValidifiedByRef", inner, None)),
                          <<"get_modify", "modify", "get_validate", "validate", "wrap">>)

ContextRejection(variant, err, builder) ==
    [variant |-> variant, err |-> err, response_builder |-> builder]

\* mutant: the rejection carries the default builder instead of the context's
ContextValidFromRequest_DefaultBuilder(ex, context) ==
    IF ex.tag = "Err"
    THEN Outcome(Err(ContextRejection("Inner", ex.val, "default")), <<"map_err">>)
    ELSE LET inner == ex.val
             ve == ParametersValidate(get_validate(inner))
         IN  IF ve # <<>>
             THEN Outcome(Err(ContextRejection("Valid", ve, "default")),
                          <<"get_validate", "validate">>)
             ELSE Outcome(Ok(Wrapper("ContextValid", inner, None)),
                          <<"get_validate", "validate", "wrap">>)

\* lib.rs: impl FromRequest for Valid, with the ValidationContext of the state
ContextValidFromRequest(ex, context) ==
    LET builder == Unwrap(context).response_builder
    IN  IF ex.tag = "Err"
        THEN Outcome(Err(ContextRejection("Inner", ex.val, builder)), <<"map_err">>)
        ELSE LET inner == ex.val
                 ve == ParametersValidate(get_validate(inner))
             IN  IF ve # <<>>
                 THEN Outcome(Err(ContextRejection("Valid", ve, builder)),
                              <<"get_validate", "validate">>)
                 ELSE Outcome(Ok(Wrapper("ContextValid", inner, None)),
                              <<"get_validate", "validate", "wrap">>)


\* mutant: the value is validated before the result of the inner extractor is
\* looked at, so a failed inner extraction is reported as a validation failure
ContextValidExFromRequest_ValidatesFirst(ex, context) ==
    LET builder == Unwrap(context).response_builder
        args == Unwrap(context).arguments
    IN  IF ex.tag = "Err"
        THEN Outcome(Err(ContextRejection("Valid", <<>>, builder)),
                     <<"get_validate_args", "validate_args", "map_err">>)
        ELSE LET inner == ex.val
                 ve == ParametersExValidateArgs(get_validate_args(inner), args)
             IN  IF ve # <<>>
                 THEN Outcome(Err(ContextRejection("Valid", ve, builder)),
                              <<"get_validate_args", "validate_args">>)
                 ELSE Outcome(Ok(Wrapper("ContextValidEx", inner, Some(args))),
                              <<"get_validate_args", "validate_args", "wrap">>)

\* lib.rs: impl FromRequest for ValidEx, with the ValidationContext of the state
ContextValidExFromRequest(ex, context) ==
    LET builder == Unwrap(context).response_builder
        args == Unwrap(context).arguments
    IN  IF ex.tag = "Err"
        THEN Outcome(Err(ContextRejection("Inner", ex.val, builder)), <<"map_err">>)
        ELSE LET inner == ex.val
                 ve == ParametersExValidateArgs(get_validate_args(inner), args)
             IN  IF ve # <<>>
                 THEN Outcome(Err(ContextRejection("Valid", ve, builder)),
                              <<"get_validate_args", "validate_args">>)
                 ELSE Outcome(Ok(Wrapper("ContextValidEx", inner, Some(args))),
                              <<"get_validate_args", "validate_args", "wrap">>)

FromRequestOutcome(dec, ex, args) ==
    CASE dec = "Valid" -> ValidFromRequest(ex)
      [] dec = "ValidEx" -> ValidExFromRequest(ex, args)
      [] dec = "Garde" -> GardeFromRequest(ex, args)
      [] dec = "Validated" -> ValidatedFromRequest(ex)
      [] dec = "Modified" -> ModifiedFromRequest(ex)
      [] dec = "Validified" -> ValidifiedFromRequest(ex)
      [] dec = "ValidifiedByRef" -> ValidifiedByRefFromRequest(ex)
      [] dec = "ContextValid" -> ContextValidFromRequest(ex, args)
      [] dec = "ContextValidEx" -> ContextValidExFromRequest(ex, args)

\* FromRef::from_ref(state): what the decorator reads from the router state
from_ref(dec) ==
    CASE dec = "ValidEx" -> Some(state.param_validation_ctx)
      [] dec = "Garde" -> Some(state.no_argument_context)
      [] dec = "ContextValid" -> Some(without_arguments(state.validation_context))
      [] dec = "ContextValidEx" -> Some(state.validation_context)
      [] OTHER -> None

\* the extraction the decorator delegates to
InnerFromRequest(dec, ext, body) ==
    IF dec = "Validified" THEN FromRequestPayload(ext, body)
    ELSE FromRequestData(ext, body)

(***************************************************************************)
(* Handlers of the test routers: validate (and check modification) again   *)
(***************************************************************************)
validate_again(p) ==
    IF ParametersValidate(p) = <<>> THEN OK ELSE INTERNAL_SERVER_ERROR

validate_again_ex(p, args) ==
    IF ParametersExValidateArgs(p, args) = <<>> THEN OK ELSE INTERNAL_SERVER_ERROR

validate_again_garde(p, ctx) ==
    IF ParametersGardeValidate(p, ctx) = <<>> THEN OK ELSE INTERNAL_SERVER_ERROR

check_validated(p) ==
    IF ParametersValidifyValidate(p) = <<>> THEN OK ELSE INTERNAL_SERVER_ERROR

\* IsModified::modified
modified(p) == ParametersValidifyModify(p) = p

check_modified(p) == IF modified(p) THEN OK ELSE INTERNAL_SERVER_ERROR

check_validified(p) ==
    IF check_modified(p) # OK THEN check_modified(p) ELSE check_validated(p)

Handler(w) ==
    LET p == w.f0.f0
    IN  CASE w.wrapper \in {"Valid", "ContextValid"} -> validate_again(p)
          [] w.wrapper = "ValidEx" -> validate_again_ex(p, state.param_validation_ctx)
          [] w.wrapper = "ContextValidEx" ->
                validate_again_ex(p, state.validation_context.arguments)
          [] w.wrapper = "Garde" -> validate_again_garde(p, Unit)
          [] w.wrapper = "Validated" -> check_validated(p)
          [] w.wrapper = "Modified" -> check_modified(p)
          [] w.wrapper \in {"Validified", "ValidifiedByRef"} -> check_validified(p)

\* impl IntoResponse for the rejection of the decorator
RejectionIntoResponse(dec, rej, flip) ==
    CASE dec \in {"Valid", "ValidEx"} -> ValidRejectionIntoResponse(rej, flip)
      [] dec = "Garde" -> GardeRejectionIntoResponse(rej)
      [] dec \in ValidifyDecorators -> ValidifyRejectionIntoResponse(rej)
      [] dec = "Modified" -> InnerIntoResponse(rej)
      [] dec \in {"ContextValid", "ContextValidEx"} ->
            ContextRejectionIntoResponse(rej, flip)

\* decorators the tests put inside an outermost WithRejection
WithRejectionDecorators == {"Valid", "Garde", "Validated", "ValidifiedByRef", "ContextValid"}

\* the inner extractors a decorator can wrap: Validified needs a payload extractor
ExtractorsOf(dec) == IF dec = "Validified" THEN SerdeExtractors ELSE Extractors

\* WithRejection<E, R>::from_request: the rejection of E is converted with R::from
WithRejectionFromRequest(out) ==
    IF out.res.tag = "Err"
    THEN Outcome(Err([inner |-> out.res.val]), out.trace \o <<"from">>)
    ELSE Outcome(Ok(Wrapper("WithRejection", out.res.val, None)), out.trace)

\* test.rs: impl IntoResponse for WithRejectionValidRejection around the
\* ValidRejection of lib.rs; the builder carried by the rejection is not used
ContextWithRejectionIntoResponse(rej, flip) ==
    IF rej.inner.variant = "Valid"
    THEN StringIntoResponse(IM_A_TEAPOT, to_string(rej.inner.err, flip))
    ELSE [InnerIntoResponse(rej.inner.err) EXCEPT !.status = IM_A_TEAPOT]

\* mutant: the response of the wrapped rejection is returned with its own status
WithRejectionIntoResponse_KeepsStatus(dec, rej, flip) ==
    IF dec = "ContextValid" THEN ContextWithRejectionIntoResponse(rej, flip)
    ELSE RejectionIntoResponse(dec, rej.inner, flip)

\* impl IntoResponse for WithRejectionValidRejection / WithRejectionGardeRejection /
\* WithRejectionValidifyRejection of the tests
WithRejectionIntoResponse(dec, rej, flip) ==
    IF dec = "ContextValid" THEN ContextWithRejectionIntoResponse(rej, flip)
    ELSE [RejectionIntoResponse(dec, rej.inner, flip) EXCEPT !.status = IM_A_TEAPOT]

\* iteration orders of a report: validator keeps it in a HashMap, the others in a Vec
Flips(dec, res) ==
    IF /\ dec \in ValidatorDecorators
       /\ res.tag = "Err"
       /\ res.val.variant = "Valid"
       /\ Len(res.val.err) > 1
    THEN BOOLEAN ELSE {FALSE}

(***************************************************************************)
(* The state machine                                                       *)
(***************************************************************************)
Slots == DOMAIN pc

Idle(S) ==
    /\ pc = [r \in S |-> "idle"]
    /\ req = [r \in S |-> None]
    /\ arguments = [r \in S |-> None]
    /\ extracted = [r \in S |-> None]
    /\ result = [r \in S |-> None]
    /\ response = [r \in S |-> None]
    /\ steps = [r \in S |-> <<>>]

InitState ==
    /\ features \in [f422 : BOOLEAN, into_json : BOOLEAN]
    /\ \E args \in ArgumentsSet, builder \in ResponseBuilders :
          state = [param_validation_ctx |-> args,
                   no_argument_context |-> Unit,
                   validation_context |-> with_arguments(NewContext(builder), args)]

\* no unit test of the wrappers is running
NoUnitTest == unit_v = None /\ unit_inner = None /\ unit_out = None

Init == InitState /\ Idle({1}) /\ NoUnitTest

\* the router calls from_request: the arguments are read from the state and the
\* inner extractor is invoked

\* mutant: from_ref moves the arguments out of the state, leaving the default
BeginWith_TakesArguments(r, decs, exts, bodies) ==
    /\ pc[r] = "idle"
    /\ \E dec \in decs, body \in bodies :
       \E ext \in ExtractorsOf(dec) \cap exts,
          outer \in {FALSE} \cup {dec \in WithRejectionDecorators} :
          /\ req' = [req EXCEPT ![r] = Some([dec |-> dec, ext |-> ext, body |-> body,
                                             with_rejection |-> outer])]
          /\ arguments' = [arguments EXCEPT ![r] = from_ref(dec)]
          /\ steps' = [steps EXCEPT ![r] =
                (IF dec \in ArgumentDecorators THEN <<"from_ref">> ELSE <<>>)
                    \o <<"from_request">>]
          /\ state' = IF dec = "ValidEx"
                      THEN [state EXCEPT !.param_validation_ctx = DefaultArguments]
                      ELSE state
    /\ pc' = [pc EXCEPT ![r] = "awaiting"]
    /\ UNCHANGED <<features, extracted, result, response>>
    /\ UNCHANGED unit_vars

BeginWith(r, decs, exts, bodies) ==
    /\ pc[r] = "idle"
    /\ \E dec \in decs, body \in bodies :
       \E ext \in ExtractorsOf(dec) \cap exts,
          outer \in {FALSE} \cup {dec \in WithRejectionDecorators} :
          /\ req' = [req EXCEPT ![r] = Some([dec |-> dec, ext |-> ext, body |-> body,
                                             with_rejection |-> outer])]
          /\ arguments' = [arguments EXCEPT ![r] = from_ref(dec)]
          /\ steps' = [steps EXCEPT ![r] =
                (IF dec \in ArgumentDecorators THEN <<"from_ref">> ELSE <<>>)
                    \o <<"from_request">>]
    /\ pc' = [pc EXCEPT ![r] = "awaiting"]
    /\ UNCHANGED <<features, state, extracted, result, response>>
    /\ UNCHANGED unit_vars

Begin(r) == BeginWith(r, Decorators, Extractors, Bodies)

\* the inner extractor's future completes
InnerComplete(r) ==
    /\ pc[r] = "awaiting"
    /\ LET q == Unwrap(req[r])
       IN  extracted' = [extracted EXCEPT ![r] =
                            Some(InnerFromRequest(q.dec, q.ext, q.body))]
    /\ pc' = [pc EXCEPT ![r] = "ready"]
    /\ UNCHANGED <<features, state, req, arguments, result, response, steps>>
    /\ UNCHANGED unit_vars

\* mutant: the extracted value is kept in one buffer shared by all requests
Resume_SharedBuffer(r) ==
    /\ pc[r] = "ready"
    /\ LET q == Unwrap(req[r])
           ex == IF extracted[1] # None THEN extracted[1] ELSE extracted[r]
           own == FromRequestOutcome(q.dec, Unwrap(ex), arguments[r])
           out == IF q.with_rejection THEN WithRejectionFromRequest(own) ELSE own
       IN  /\ result' = [result EXCEPT ![r] = Some(out.res)]
           /\ steps' = [steps EXCEPT ![r] = steps[r] \o out.trace]
    /\ pc' = [pc EXCEPT ![r] = "returned"]
    /\ UNCHANGED <<features, state, req, arguments, extracted, response>>
    /\ UNCHANGED unit_vars


\* mutant: a failed inner extraction is unwrapped and the task aborts
Resume_Aborts(r) ==
    /\ pc[r] = "ready"
    /\ LET q == Unwrap(req[r])
           own == FromRequestOutcome(q.dec, Unwrap(extracted[r]), arguments[r])
           out == IF q.with_rejection THEN WithRejectionFromRequest(own) ELSE own
       IN  IF Unwrap(extracted[r]).tag = "Err"
           THEN /\ pc' = [pc EXCEPT ![r] = "aborted"]
                /\ UNCHANGED <<result, steps>>
           ELSE /\ result' = [result EXCEPT ![r] = Some(out.res)]
                /\ steps' = [steps EXCEPT ![r] = steps[r] \o out.trace]
                /\ pc' = [pc EXCEPT ![r] = "returned"]
    /\ UNCHANGED <<features, state, req, arguments, extracted, response>>
    /\ UNCHANGED unit_vars

\* from_request continues after the await and returns
Resume(r) ==
    /\ pc[r] = "ready"
    /\ LET q == Unwrap(req[r])
           own == FromRequestOutcome(q.dec, Unwrap(extracted[r]), arguments[r])
           out == IF q.with_rejection THEN WithRejectionFromRequest(own) ELSE own
       IN  /\ result' = [result EXCEPT ![r] = Some(out.res)]
           /\ steps' = [steps EXCEPT ![r] = steps[r] \o out.trace]
    /\ pc' = [pc EXCEPT ![r] = "returned"]
    /\ UNCHANGED <<features, state, req, arguments, extracted, response>>
    /\ UNCHANGED unit_vars

\* the handler runs on Ok, the rejection is converted into a response on Err
Respond(r) ==
    /\ pc[r] = "returned"
    /\ LET q == Unwrap(req[r])
           res == Unwrap(result[r])
           own == IF ~q.with_rejection THEN res
                  ELSE IF res.tag = "Ok" THEN Ok(res.val.f0) ELSE Err(res.val.inner)
       IN  \E flip \in Flips(q.dec, own) :
              response' = [response EXCEPT ![r] = Some(
                  IF res.tag = "Ok" THEN Response(Handler(own.val), TEXT_PLAIN, EmptyBody)
                  ELSE IF q.with_rejection
                  THEN WithRejectionIntoResponse(q.dec, res.val, flip)
                  ELSE RejectionIntoResponse(q.dec, res.val, flip))]
    /\ pc' = [pc EXCEPT ![r] = "responded"]
    /\ UNCHANGED <<features, state, req, arguments, extracted, result, steps>>
    /\ UNCHANGED unit_vars

\* the response is sent and the slot serves the next request
Finish(r) ==
    /\ pc[r] = "responded"
    /\ pc' = [pc EXCEPT ![r] = "idle"]
    /\ req' = [req EXCEPT ![r] = None]
    /\ arguments' = [arguments EXCEPT ![r] = None]
    /\ extracted' = [extracted EXCEPT ![r] = None]
    /\ result' = [result EXCEPT ![r] = None]
    /\ response' = [response EXCEPT ![r] = None]
    /\ steps' = [steps EXCEPT ![r] = <<>>]
    /\ UNCHANGED <<features, state>>
    /\ UNCHANGED unit_vars

Next ==
    \E r \in Slots :
        \/ Begin(r)
        \/ InnerComplete(r)
        \/ Resume(r)
        \/ Respond(r)
        \/ Finish(r)

Spec == Init /\ [][Next]_vars


(***************************************************************************)
(* Two requests in flight against the same router state.  from_request is  *)
(* an async fn: the router polls the futures of different requests in any  *)
(* order, and each future owns its request and borrows the state.          *)
(***************************************************************************)
ConcDecorators == {"Valid", "ValidEx", "Garde", "ValidifiedByRef", "ContextValidEx"}
ConcExtractors == {"Json"}
ConcBodies ==
    {[wellformed |-> FALSE, v0 |-> None, v1 |-> None],
     BodyOf(VALID_PARAMETERS),
     BodyOf(Parameters(V0_MIN - 1, Digits11))}

InitConc == InitState /\ Idle({1, 2}) /\ NoUnitTest

BeginConc(r) == BeginWith(r, ConcDecorators, ConcExtractors, ConcBodies)

NextConc ==
    \E r \in Slots :
        \/ BeginConc(r)
        \/ InnerComplete(r)
        \/ Resume(r)
        \/ Respond(r)
        \/ Finish(r)

SpecConc == InitConc /\ [][NextConc]_vars


(***************************************************************************)
(* One request at a time under the scheduling of the runtime: a future     *)
(* whose inner extraction has completed is polled again, and the result it *)
(* returns is turned into a response.  The rest of from_request has no     *)
(* await and no loop.                                                      *)
(***************************************************************************)
LiveBodies == ConcBodies \cup {[wellformed |-> TRUE, v0 |-> Some(V0_MIN), v1 |-> None]}

BeginLive(r) == BeginWith(r, Decorators, Extractors, LiveBodies)

NextLive ==
    \E r \in Slots :
        \/ BeginLive(r)
        \/ InnerComplete(r)
        \/ Resume(r)
        \/ Respond(r)
        \/ Finish(r)

Fairness == \A r \in {1} : WF_vars(Resume(r)) /\ WF_vars(Respond(r))

SpecLive == Init /\ [][NextLive]_vars /\ Fairness

(***************************************************************************)
(* The wrappers as smart pointers: the unit tests deref_deref_mut_into_inner *)
(* build a wrapper around a string, push to it through deref_mut() and     *)
(* take the string back with into_inner().                                 *)
(***************************************************************************)
TEST == <<"t", "e", "s", "t">>

\* Deref::deref: &self.0
deref(w) == w.f0

\* String::push_str
push_str(s, t) == s \o t

\* mutant: deref_mut() hands out a temporary copy, the wrapper keeps its value
DerefMutPushStr_Copy(w, t) == w

\* v.deref_mut().push_str(t): DerefMut::deref_mut is &mut self.0
DerefMutPushStr(w, t) == [w EXCEPT !.f0 = push_str(deref(w), t)]

\* into_inner(self): self.0
into_inner(w) == w.f0

\* the second field of a wrapper built in a unit test: ValidEx(inner, ())
UnitTestArguments(dec) ==
    IF dec \in {"ValidEx", "Garde", "ContextValidEx"} THEN Some(Unit) ELSE None

\* let mut inner = String::from(..); let mut v = W(inner.clone());
InitDeref ==
    /\ InitState
    /\ Idle({1})
    /\ unit_out = None
    /\ \E dec \in Decorators, s \in Strings \cup {TEST} :
          /\ unit_inner = Some(s)
          /\ unit_v = Some(Wrapper(dec, s, UnitTestArguments(dec)))

\* inner.push_str(TEST); v.deref_mut().push_str(TEST);
PushStr ==
    /\ unit_v # None
    /\ Len(Unwrap(unit_inner)) <= MaxStrLen
    /\ unit_inner' = Some(push_str(Unwrap(unit_inner), TEST))
    /\ unit_v' = Some(DerefMutPushStr(Unwrap(unit_v), TEST))
    /\ UNCHANGED <<request_vars, unit_out>>

\* v.into_inner() consumes the wrapper
IntoInner ==
    /\ unit_v # None
    /\ unit_out' = Some(into_inner(Unwrap(unit_v)))
    /\ unit_v' = None
    /\ UNCHANGED <<request_vars, unit_inner>>

NextDeref == PushStr \/ IntoInner

SpecDeref == InitDeref /\ [][NextDeref]_vars


(***************************************************************************)
(* Modified as a response: the unit test modified_into_response converts   *)
(* Modified(Json(data)) into a response.                                   *)
(***************************************************************************)
\* struct Data { #[modify(trim)] v: String }
Data(v) == [v |-> v]

\* str::trim
trim(s) ==
    LET kept == {i \in 1..Len(s) : s[i] # " "}
    IN  IF kept = {} THEN <<>>
        ELSE SubSeq(s, CHOOSE i \in kept : \A j \in kept : i <= j,
                       CHOOSE i \in kept : \A j \in kept : j <= i)

DataModify(d) == [d EXCEPT !.v = trim(d.v)]

\* Modify::modify of the type of the data
Modify(data) ==
    IF "v" \in DOMAIN data THEN DataModify(data) ELSE ParametersValidifyModify(data)

\* the data the unit test and the handlers may answer with
DataValues ==
    {Data(<<"a", " ", " ">>), Data(<<" ", "a">>), Data(<<" ", "a", " ", "b", " ">>),
     Data(<<" ", " ">>), Data(<<"a">>), Data(<<>>)}
ResponseValues ==
    {Extractor("Json", d) : d \in DataValues}
        \cup {Extractor("Json", Parameters(v0, v1)) : v0 \in V0Values, v1 \in Strings}

\* axum::Json(data).into_response(): the data serialized, with 200 OK
JsonValueIntoResponse(inner) ==
    Response(OK, APPLICATION_JSON, [format |-> "json", entries |-> <<inner.f0>>])

\* mutant: the response is made from the value as it was given
ModifiedIntoResponse_Unmodified(w) == JsonValueIntoResponse(w.f0)

\* impl IntoResponse for Modified: self.get_modify().modify(); self.0.into_response()
ModifiedIntoResponse(w) ==
    LET inner == [w.f0 EXCEPT !.f0 = Modify(get_modify(w.f0))]
    IN  JsonValueIntoResponse(inner)

\* Modified(Json(data))
InitIntoResponse ==
    /\ InitState
    /\ Idle({1})
    /\ unit_out = None
    /\ \E inner \in ResponseValues :
          /\ unit_inner = Some(inner)
          /\ unit_v = Some(Wrapper("Modified", inner, None))

\* .into_response() consumes the wrapper
IntoResponse ==
    /\ unit_v # None
    /\ unit_out' = Some(ModifiedIntoResponse(Unwrap(unit_v)))
    /\ unit_v' = None
    /\ UNCHANGED <<request_vars, unit_inner>>

NextIntoResponse == IntoResponse

SpecIntoResponse == InitIntoResponse /\ [][NextIntoResponse]_vars

(***************************************************************************)
(* Properties                                                              *)
(***************************************************************************)
Returned(r) == result[r] # None
Responded(r) == response[r] # None
\* the outermost extractor of the request of slot r
DecOf(r) == IF Unwrap(req[r]).with_rejection THEN "WithRejection" ELSE Unwrap(req[r]).dec
ExtractedOf(r) == Unwrap(extracted[r])
ResultOf(r) == Unwrap(result[r])
ResponseOf(r) == Unwrap(response[r])

\* what the plain inner extractor produces for the request of slot r
InnerAlone(r) == FromRequestData(Unwrap(req[r]).ext, Unwrap(req[r]).body)

\* the report of the rules declared for the data of decorator dec, with the
\* arguments the router state holds
DeclaredReport(dec, p) ==
    CASE dec \in {"Valid", "ContextValid"} -> ParametersValidate(p)
      [] dec = "ValidEx" -> ParametersExValidateArgs(p, state.param_validation_ctx)
      [] dec = "ContextValidEx" ->
            ParametersExValidateArgs(p, state.validation_context.arguments)
      [] dec = "Garde" -> ParametersGardeValidate(p, state.no_argument_context)
      [] dec \in {"Validated", "Modified", "Validified", "ValidifiedByRef"} ->
            ParametersValidifyValidate(p)

FieldsOf(report) == {report[i].field : i \in 1..Len(report)}

\* a response that reports violated fields of the parameters
ReportsViolations(resp) == FieldsOf(resp.body.entries) \cap {"v0", "v1"} # {}

RejectionDecorators == Decorators \ {"Modified"}

\* C1: when the inner extractor rejects the request, the decorator fails with
\* the Inner variant carrying that rejection unchanged, and the response is the
\* inner rejection's own response, never a validation-failure response.
C1_InnerRejectionUnchanged ==
    \A r \in Slots :
        (/\ Returned(r)
         /\ DecOf(r) \in RejectionDecorators
         /\ ExtractedOf(r).tag = "Err")
        => /\ ResultOf(r).tag = "Err"
           /\ ResultOf(r).val.variant = "Inner"
           /\ ResultOf(r).val.err = ExtractedOf(r).val
           /\ Responded(r) =>
                /\ ResponseOf(r) = InnerIntoResponse(ExtractedOf(r).val)
                /\ ~ReportsViolations(ResponseOf(r))

C1_Witness ==
    \E r \in Slots :
        /\ Responded(r)
        /\ DecOf(r) = "Valid"
        /\ ~Unwrap(req[r]).body.wellformed
        /\ ResponseOf(r).status = UNPROCESSABLE_ENTITY

\* C2: when the inner extractor accepts the request and the projected value
\* violates a rule, Valid / ValidEx / Garde / Validated / ValidifiedByRef fail
\* with the validation variant carrying the report, and the response has
\* status VALIDATION_ERROR_STATUS.
C2_Decorators == {"Valid", "ValidEx", "Garde", "Validated", "ValidifiedByRef"}

C2_ValidationVariant ==
    \A r \in Slots :
        (/\ Returned(r)
         /\ DecOf(r) \in C2_Decorators
         /\ ExtractedOf(r).tag = "Ok"
         /\ DeclaredReport(DecOf(r), get_validate(ExtractedOf(r).val)) # <<>>)
        => /\ ResultOf(r).tag = "Err"
           /\ ResultOf(r).val.variant = (IF DecOf(r) = "Garde" THEN "Report" ELSE "Valid")
           /\ ResultOf(r).val.err =
                 DeclaredReport(DecOf(r), get_validate(ExtractedOf(r).val))
           /\ Responded(r) => ResponseOf(r).status = VALIDATION_ERROR_STATUS

C2_Witness ==
    \E r \in Slots :
        /\ Responded(r)
        /\ DecOf(r) = "Garde"
        /\ ExtractedOf(r).tag = "Ok"
        /\ get_validate(ExtractedOf(r).val) = INVALID_PARAMETERS
        /\ ResultOf(r).tag = "Err"

\* C3 (as stated): when the inner extractor accepts the request and the value
\* satisfies every declared rule, every decorator returns Ok and wraps a value
\* equal to the one the inner extractor alone produces.
C3_Original ==
    \A r \in Slots :
        (/\ Returned(r)
         /\ DecOf(r) \in Decorators
         /\ InnerAlone(r).tag = "Ok"
         /\ DeclaredReport(DecOf(r), get_validate(InnerAlone(r).val)) = <<>>)
        => /\ ResultOf(r).tag = "Ok"
           /\ ResultOf(r).val.f0 = InnerAlone(r).val

ModifyingDecorators == {"Modified", "Validified", "ValidifiedByRef"}

\* C3 (amended): under the same precondition every decorator returns Ok; Valid,
\* ValidEx, Garde and Validated wrap the value the inner extractor alone
\* produces, while Modified, Validified and ValidifiedByRef wrap that value
\* after modify().
C3_OkWrapsInnerValue ==
    \A r \in Slots :
        (/\ Returned(r)
         /\ DecOf(r) \in Decorators
         /\ InnerAlone(r).tag = "Ok"
         /\ DeclaredReport(DecOf(r), get_validate(InnerAlone(r).val)) = <<>>)
        => /\ ResultOf(r).tag = "Ok"
           /\ ResultOf(r).val.f0 =
                 (IF DecOf(r) \in ModifyingDecorators
                  THEN ModifyInPlace(InnerAlone(r).val)
                  ELSE InnerAlone(r).val)

C3_Witness ==
    \E r \in Slots :
        /\ Returned(r)
        /\ DecOf(r) = "Validated"
        /\ ResultOf(r).tag = "Ok"
        /\ get_validate(ResultOf(r).val.f0) = VALID_PARAMETERS_VALIDIFY

ValidationFailed(r) ==
    /\ Returned(r)
    /\ DecOf(r) \in RejectionDecorators
    /\ ResultOf(r).tag = "Err"
    /\ ResultOf(r).val.variant \in {"Valid", "Report"}

\* C4: every value wrapped in an Ok result passes the same validation routine
\* again, with the arguments stored in the wrapper and with those of the
\* state; validation leaves the value as the inner extractor (or modify())
\* produced it, and the re-validating handler never answers 500.
C4_Decorators == Decorators \ {"Modified"}

C4_RevalidationSucceeds ==
    \A r \in Slots :
        (/\ Returned(r)
         /\ DecOf(r) \in C4_Decorators
         /\ ResultOf(r).tag = "Ok")
        => LET w == ResultOf(r).val
           IN  /\ DeclaredReport(DecOf(r), get_validate(w.f0)) = <<>>
               /\ DecOf(r) \notin ModifyingDecorators => w.f0 = ExtractedOf(r).val
               /\ DecOf(r) = "ValidifiedByRef" => w.f0 = ModifyInPlace(ExtractedOf(r).val)
               /\ DecOf(r) = "ValidEx" =>
                    ParametersExValidateArgs(get_validate_args(w.f0), Unwrap(w.f1)) = <<>>
               /\ Responded(r) =>
                    /\ ResponseOf(r).status = OK
                    /\ ResponseOf(r).status # INTERNAL_SERVER_ERROR

C4_Witness ==
    \E r \in Slots :
        /\ Responded(r)
        /\ DecOf(r) = "ValidifiedByRef"
        /\ ResultOf(r).tag = "Ok"
        /\ ExtractedOf(r).val.f0 = VALID_PARAMETERS_VALIDIFY
        /\ ResponseOf(r).status = OK

\* the fields of p that violate the rule declared for them
ViolatedFields(dec, p) ==
    LET args == CASE dec = "ValidEx" -> state.param_validation_ctx
                  [] dec = "ContextValidEx" -> state.validation_context.arguments
                  [] OTHER -> DefaultArguments
    IN  {f \in {"v0"} : p.v0 < args.v0_range[1] \/ p.v0 > args.v0_range[2]}
            \cup {f \in {"v1"} : Len(p.v1) < args.v1_length_range[1]
                                    \/ Len(p.v1) > args.v1_length_range[2]}

\* C5: when validation fails, the report in the rejection and the response
\* body list every field that violates its rule, not only the first one.
C5_Decorators == RejectionDecorators \ {"Validified"}

C6_Decorators == {"Valid", "ContextValid", "Garde"}

\* C6 (as stated): {v0:5, v1:"0123456789"} is accepted; {v0:6, v1:"01234567890"}
\* yields a validation failure listing both v0 and v1; an unparseable body
\* yields the inner extractor's status, which is not the validation status.
C6_Original ==
    \A r \in Slots :
        (Responded(r) /\ DecOf(r) \in C6_Decorators)
        => LET body == Unwrap(req[r]).body
           IN  /\ body = BodyOf(VALID_PARAMETERS) =>
                    ResultOf(r).tag = "Ok" /\ ResponseOf(r).status = OK
               /\ body = BodyOf(INVALID_PARAMETERS) =>
                    /\ ValidationFailed(r)
                    /\ FieldsOf(ResponseOf(r).body.entries) = {"v0", "v1"}
               /\ ~body.wellformed =>
                    /\ ResponseOf(r).status = ERROR_STATUS_CODE(Unwrap(req[r]).ext)
                    /\ ResponseOf(r).status # VALIDATION_ERROR_STATUS

\* C6 (amended): {v0:5, v1:"0123456789"} is accepted; {v0:6, v1:"01234567890"}
\* violates only v1 and yields a validation failure listing v1 alone; an
\* unparseable body yields the inner extractor's own response and status,
\* whether or not that status equals the validation status.
C6_Scenario ==
    \A r \in Slots :
        (Responded(r) /\ DecOf(r) \in C6_Decorators)
        => LET body == Unwrap(req[r]).body
           IN  /\ body = BodyOf(VALID_PARAMETERS) =>
                    ResultOf(r).tag = "Ok" /\ ResponseOf(r).status = OK
               /\ body = BodyOf(INVALID_PARAMETERS) =>
                    /\ ValidationFailed(r)
                    /\ FieldsOf(ResultOf(r).val.err) = {"v1"}
                    /\ FieldsOf(ResponseOf(r).body.entries) = {"v1"}
               /\ ~body.wellformed =>
                    /\ ResultOf(r).val.variant = "Inner"
                    /\ ResponseOf(r).status = ERROR_STATUS_CODE(Unwrap(req[r]).ext)
                    /\ ~ReportsViolations(ResponseOf(r))

C6_Witness ==
    \E r \in Slots :
        /\ Responded(r)
        /\ DecOf(r) = "Valid"
        /\ Unwrap(req[r]).body = BodyOf(INVALID_PARAMETERS)
        /\ ValidationFailed(r)
        /\ ResponseOf(r).status = VALIDATION_ERROR_STATUS

\* the validation failure of r is answered by a builder of the library
OwnBuilder(r) ==
    DecOf(r) \in {"ContextValid", "ContextValidEx"}
        => ResultOf(r).val.response_builder # "custom"

\* C7: the status of a validation-failure response built by the library's own
\* builders is 400, or 422 when the `422` option is enabled, and nothing else.
C7_DefaultStatus ==
    \A r \in Slots :
        (Responded(r) /\ ValidationFailed(r) /\ OwnBuilder(r))
        => ResponseOf(r).status =
             (IF features.f422 THEN UNPROCESSABLE_ENTITY ELSE BAD_REQUEST)

C7_Witness ==
    \E r \in Slots :
        /\ Responded(r)
        /\ ValidationFailed(r)
        /\ DecOf(r) = "ContextValid"
        /\ ResultOf(r).val.response_builder = "json"
        /\ features.f422
        /\ ResponseOf(r).status = UNPROCESSABLE_ENTITY

\* the validation failure of r is answered by the default builder
DefaultBuilder(r) ==
    DecOf(r) \in {"ContextValid", "ContextValidEx"}
        => ResultOf(r).val.response_builder = "default"

\* C8: the default validation-failure body is the plain-text rendering of the
\* report; with `into_json` it is the JSON serialization of the report, with
\* Content-Type application/json.
C8_DefaultBody ==
    \A r \in Slots :
        (Responded(r) /\ ValidationFailed(r) /\ DefaultBuilder(r))
        => LET report == ResultOf(r).val.err
               resp == ResponseOf(r)
           IN  IF features.into_json
               THEN /\ resp.content_type = APPLICATION_JSON
                    /\ resp.body.format = "json"
                    /\ resp.body \in {Json(report, flip) : flip \in BOOLEAN}
               ELSE /\ resp.content_type = TEXT_PLAIN
                    /\ resp.body.format = "text"
                    /\ resp.body \in {to_string(report, flip) : flip \in BOOLEAN}

C8_Witness ==
    \E r \in Slots :
        /\ Responded(r)
        /\ ValidationFailed(r)
        /\ DecOf(r) = "Garde"
        /\ features.into_json
        /\ ResponseOf(r).content_type = APPLICATION_JSON

\* C9: with ValidEx and Garde a request the inner extractor accepts is accepted
\* iff its projected value passes validation with the arguments of the router
\* state, so the verdict on one input changes with the state.
C9_Decorators == {"ValidEx", "Garde", "ContextValidEx"}

C9_VerdictFollowsArguments ==
    \A r \in Slots :
        (/\ Returned(r)
         /\ DecOf(r) \in C9_Decorators
         /\ ExtractedOf(r).tag = "Ok")
        => /\ arguments[r] = from_ref(DecOf(r))
           /\ ResultOf(r).tag = "Ok"
                <=> ViolatedFields(DecOf(r), get_validate(ExtractedOf(r).val)) = {}

C9_Witness ==
    \E r \in Slots :
        /\ Returned(r)
        /\ DecOf(r) = "ValidEx"
        /\ ResultOf(r).tag = "Ok"
        /\ ParametersExValidateArgs(get_validate_args(ResultOf(r).val.f0),
                                    DefaultArguments) # <<>>

\* C10: Modified never fails validation: whenever the inner extractor accepts
\* the request the result is Ok, even for a value that violates the rules, and
\* an Err is the inner extractor's own rejection, returned only when it fails.
C10_ModifiedNeverInvalid ==
    \A r \in Slots :
        (Returned(r) /\ DecOf(r) = "Modified")
        => /\ ExtractedOf(r).tag = "Ok" =>
                /\ ResultOf(r).tag = "Ok"
                /\ Responded(r) => ResponseOf(r).status = OK
           /\ ExtractedOf(r).tag = "Err" =>
                /\ ResultOf(r) = Err(ExtractedOf(r).val)
                /\ Responded(r) =>
                     ResponseOf(r) = InnerIntoResponse(ExtractedOf(r).val)

C10_Witness ==
    \E r \in Slots :
        /\ Responded(r)
        /\ DecOf(r) = "Modified"
        /\ ExtractedOf(r).tag = "Ok"
        /\ ExtractedOf(r).val.f0 = INVALID_PARAMETERS_VALIDIFY
        /\ ResultOf(r).tag = "Ok"
        /\ ResponseOf(r).status = OK

\* C11: every value wrapped in an Ok result of Modified, ValidifiedByRef or
\* Validified is a fixed point of modify(): modifying a clone of it gives an
\* equal value, so check_modified / check_validified answer 200.
C11_ModifyFixedPoint ==
    \A r \in Slots :
        (/\ Returned(r)
         /\ DecOf(r) \in ModifyingDecorators
         /\ ResultOf(r).tag = "Ok")
        => LET p == get_modify(ResultOf(r).val.f0)
           IN  /\ ParametersValidifyModify(p) = p
               /\ \A i \in 1..Len(p.v1) :
                     ~\E j \in 1..Len(UpperChars) : p.v1[i] = UpperChars[j]
               /\ Responded(r) => ResponseOf(r).status = OK

C11_Witness ==
    \E r \in Slots :
        /\ Responded(r)
        /\ DecOf(r) = "Modified"
        /\ ResultOf(r).tag = "Ok"
        /\ get_modify(ExtractedOf(r).val).v1 = <<"a", "B">>
        /\ get_modify(ResultOf(r).val.f0).v1 = <<"a", "b">>

MissingFields(body) == {f \in {"v0"} : body.v0 = None} \cup {f \in {"v1"} : body.v1 = None}

\* C12: Validified runs the payload extractor, builds, modifies and validates
\* the value from the payload and re-packages it with from_validify.  A parsed
\* payload with missing fields is a validation failure (Valid variant,
\* validation status) naming the missing fields; a payload the payload
\* extractor rejects is an Inner failure answered by the inner rejection.
C12_ValidifiedPayload ==
    \A r \in Slots :
        (Returned(r) /\ DecOf(r) = "Validified")
        => LET q == Unwrap(req[r])
               res == ResultOf(r)
           IN  /\ ExtractedOf(r) = FromRequestPayload(q.ext, q.body)
               /\ ~q.body.wellformed =>
                    /\ res = Err(Rejection("Inner", InnerRejection(q.ext, "syntax")))
                    /\ Responded(r) =>
                         ResponseOf(r).status = ERROR_STATUS_CODE(q.ext)
               /\ (q.body.wellformed /\ MissingFields(q.body) # {}) =>
                    /\ res.tag = "Err"
                    /\ res.val.variant = "Valid"
                    /\ FieldsOf(res.val.err) = MissingFields(q.body)
                    /\ Responded(r) =>
                         /\ ResponseOf(r).status = VALIDATION_ERROR_STATUS
                         /\ FieldsOf(ResponseOf(r).body.entries) = MissingFields(q.body)
               /\ (q.body.wellformed /\ MissingFields(q.body) = {}) =>
                    LET v == ParametersValidifyModify(
                                Parameters(Unwrap(q.body.v0), Unwrap(q.body.v1)))
                    IN  IF ParametersValidifyValidate(v) = <<>>
                        THEN res = Ok(Wrapper("Validified", Extractor(q.ext, v), None))
                        ELSE res = Err(Rejection("Valid", ParametersValidifyValidate(v)))

C12_Witness ==
    \E r \in Slots :
        /\ Responded(r)
        /\ DecOf(r) = "Validified"
        /\ Unwrap(req[r]).body.wellformed
        /\ Unwrap(req[r]).body.v0 = None
        /\ Unwrap(req[r]).body.v1 = Some(Digits11)
        /\ ResultOf(r).val.variant = "Valid"
        /\ ResponseOf(r).status = VALIDATION_ERROR_STATUS

\* the request of slot r is extracted by WithRejection around a decorator
OuterWithRejection(r) == req[r] # None /\ Unwrap(req[r]).with_rejection

\* the decorator's own rejection inside the rejection of WithRejection
OwnRejection(r) == ResultOf(r).val.inner

\* C13: with WithRejection outermost around Valid / Garde / Validated /
\* ValidifiedByRef every failure, of the inner extractor and of validation,
\* is answered with the status chosen by R (418), never with
\* VALIDATION_ERROR_STATUS or the inner extractor's own status.
C13_OuterWithRejection ==
    \A r \in Slots :
        (/\ Responded(r)
         /\ OuterWithRejection(r)
         /\ ResultOf(r).tag = "Err")
        => /\ OwnRejection(r).variant \in {"Valid", "Report", "Inner"}
           /\ (OwnRejection(r).variant = "Inner") = (ExtractedOf(r).tag = "Err")
           /\ ResponseOf(r).status = IM_A_TEAPOT
           /\ ResponseOf(r).status # VALIDATION_ERROR_STATUS
           /\ ResponseOf(r).status # ERROR_STATUS_CODE(Unwrap(req[r]).ext)

C13_Witness ==
    \E r \in Slots :
        /\ Responded(r)
        /\ OuterWithRejection(r)
        /\ Unwrap(req[r]).dec = "Validated"
        /\ ResultOf(r).tag = "Err"
        /\ OwnRejection(r).variant = "Inner"
        /\ ResponseOf(r).status = IM_A_TEAPOT

\* C14: with the decorator outermost around WithRejection<T, R> a failure of T
\* is answered with R's response (409) and a validation failure with
\* VALIDATION_ERROR_STATUS; around Cached<T> a failure of T is answered with
\* T's own rejection status (403).
C14_DecoratorOutermost ==
    \A r \in Slots :
        (/\ Responded(r)
         /\ DecOf(r) \in C2_Decorators
         /\ Unwrap(req[r]).ext \in ExtraExtractors
         /\ ResultOf(r).tag = "Err")
        => LET ext == Unwrap(req[r]).ext
           IN  IF ExtractedOf(r).tag = "Err"
               THEN /\ ResultOf(r).val.variant = "Inner"
                    /\ ResponseOf(r).status = (IF ext = "WithRejection" THEN CONFLICT
                                               ELSE FORBIDDEN)
                    /\ ~ReportsViolations(ResponseOf(r))
               ELSE /\ ResultOf(r).val.variant \in {"Valid", "Report"}
                    /\ ResponseOf(r).status = VALIDATION_ERROR_STATUS
                    /\ ReportsViolations(ResponseOf(r))

C14_Witness ==
    \E r \in Slots :
        /\ Responded(r)
        /\ DecOf(r) = "Valid"
        /\ Unwrap(req[r]).ext = "WithRejection"
        /\ ExtractedOf(r).tag = "Err"
        /\ ResponseOf(r).status = CONFLICT

ContextDecorators == {"ContextValid", "ContextValidEx"}

\* the responses a builder of the library or of the user gives for a report
BuilderResponses(builder, ve) ==
    CASE builder = "string" ->
            {Response(VALIDATION_ERROR_STATUS, TEXT_PLAIN, to_string(ve, f)) : f \in BOOLEAN}
      [] builder = "json" ->
            {Response(VALIDATION_ERROR_STATUS, APPLICATION_JSON, Json(ve, f)) : f \in BOOLEAN}
      [] builder = "default" ->
            IF features.into_json
            THEN {Response(VALIDATION_ERROR_STATUS, APPLICATION_JSON, Json(ve, f)) :
                    f \in BOOLEAN}
            ELSE {Response(VALIDATION_ERROR_STATUS, TEXT_PLAIN, to_string(ve, f)) :
                    f \in BOOLEAN}
      [] builder = "custom" ->
            {Response(NOT_FOUND, APPLICATION_JSON, Json(ve, f)) : f \in BOOLEAN}

\* C15: with a ValidationContext in the router state the response to a
\* validation failure is the result of the context's response_builder applied
\* to the validation errors, so a custom builder determines status and body;
\* an inner-extractor failure is answered by the inner rejection, not the builder.
C15_ContextBuilder ==
    \A r \in Slots :
        (/\ Responded(r)
         /\ DecOf(r) \in ContextDecorators
         /\ ResultOf(r).tag = "Err")
        => LET rej == ResultOf(r).val
               builder == state.validation_context.response_builder
           IN  IF ExtractedOf(r).tag = "Err"
               THEN /\ rej.variant = "Inner"
                    /\ ResponseOf(r) = InnerIntoResponse(ExtractedOf(r).val)
                    /\ ~ReportsViolations(ResponseOf(r))
                    /\ builder = "custom" => ResponseOf(r).status # NOT_FOUND
               ELSE /\ rej.variant = "Valid"
                    /\ rej.response_builder = builder
                    /\ ResponseOf(r) \in BuilderResponses(builder, rej.err)

C15_Witness ==
    \E r \in Slots :
        /\ Responded(r)
        /\ DecOf(r) = "ContextValidEx"
        /\ ResultOf(r).tag = "Err"
        /\ ResultOf(r).val.variant = "Valid"
        /\ state.validation_context.response_builder = "custom"
        /\ ResponseOf(r).status = NOT_FOUND
        /\ ResponseOf(r).content_type = APPLICATION_JSON

\* C16: a successful ValidEx / Garde extraction returns the wrapper whose
\* second field is the arguments value obtained from the state and passed to
\* the validation call, and arguments() gives the validation arguments
\* derived from that field, with which the wrapped value passes validation.
C16_WrapperKeepsArguments ==
    \A r \in Slots :
        (/\ Returned(r)
         /\ DecOf(r) \in {"ValidEx", "Garde"}
         /\ ResultOf(r).tag = "Ok")
        => LET w == ResultOf(r).val
           IN  /\ w.f1 = arguments[r]
               /\ w.f1 = Some(IF DecOf(r) = "ValidEx" THEN state.param_validation_ctx
                               ELSE state.no_argument_context)
               /\ wrapper_arguments(w) = Unwrap(arguments[r])
               /\ DecOf(r) = "ValidEx" =>
                    ParametersExValidateArgs(get_validate_args(w.f0),
                                             wrapper_arguments(w)) = <<>>
               /\ DecOf(r) = "Garde" =>
                    ParametersGardeValidate(get_validate(w.f0), wrapper_arguments(w)) = <<>>

C16_Witness ==
    \E r \in Slots :
        /\ Returned(r)
        /\ DecOf(r) = "ValidEx"
        /\ ResultOf(r).tag = "Ok"
        /\ state.param_validation_ctx # DefaultArguments
        /\ wrapper_arguments(ResultOf(r).val) = state.param_validation_ctx
        /\ get_validate_args(ResultOf(r).val.f0).v0 = V0_MAX + 1

\* the error a failed extraction of slot r is due to: the inner extractor's
\* rejection, or the report of the violated rules
CarriedError(r) ==
    IF ExtractedOf(r).tag = "Err" THEN ExtractedOf(r).val
    ELSE IF DecOf(r) = "Validified" THEN validify_from(get_payload(ExtractedOf(r).val)).val
    ELSE DeclaredReport(DecOf(r), get_validate(ExtractedOf(r).val))

\* C17: the Display output of a rejection is the Display output of the error
\* it carries, the report for the validation variant and the inner error for
\* Inner, and source() returns that error in both variants.
C17_DisplayAndSource ==
    \A r \in Slots :
        (/\ Returned(r)
         /\ DecOf(r) \in RejectionDecorators
         /\ ResultOf(r).tag = "Err")
        => LET rej == ResultOf(r).val
           IN  /\ source(rej) = Some(CarriedError(r))
               /\ \A flip \in BOOLEAN :
                     fmt(rej, flip) =
                        (IF ExtractedOf(r).tag = "Err" THEN InnerDisplay(CarriedError(r))
                         ELSE to_string(CarriedError(r), flip))

C17_Witness ==
    \E r \in Slots :
        /\ Returned(r)
        /\ DecOf(r) = "Garde"
        /\ ResultOf(r).tag = "Err"
        /\ ResultOf(r).val.variant = "Inner"
        /\ source(ResultOf(r).val) = Some(InnerRejection("Query", "data"))
        /\ fmt(ResultOf(r).val, FALSE).entries = <<Violation("Query", "data")>>

\* C18: each wrapper is transparent over its inner value: deref() yields the
\* inner value, a mutation made through deref_mut() is visible through
\* deref(), and into_inner() returns the inner value with every mutation.
C18_WrapperTransparent ==
    /\ unit_v # None => deref(Unwrap(unit_v)) = Unwrap(unit_inner)
    /\ unit_out # None => Unwrap(unit_out) = Unwrap(unit_inner)

C18_Witness ==
    /\ unit_v = None
    /\ unit_out = Some(push_str(TEST, TEST))
    /\ unit_inner = Some(push_str(TEST, TEST))

\* the calls made on the value the inner extractor produced
ValueSteps ==
    {"get_validate", "validate", "get_validate_args", "validate_args", "get_modify",
     "modify", "get_payload", "validify_from", "from_validify", "wrap"}

\* the calls that compute the verdict, each right after the projection it uses
VerdictSteps ==
    {<<"get_validate", "validate">>, <<"get_validate_args", "validate_args">>,
     <<"get_payload", "validify_from">>}

Position(log, step) == CHOOSE i \in 1..Len(log) : log[i] = step

StepsInOrder(r) ==
    LET log == steps[r]
    IN  /\ Cardinality({i \in 1..Len(log) : log[i] = "from_request"}) = 1
        /\ \A i, j \in 1..Len(log) : log[i] = log[j] => i = j
        /\ \A i \in 1..Len(log) :
              /\ log[i] \in ValueSteps =>
                    /\ extracted[r] # None
                    /\ ExtractedOf(r).tag = "Ok"
                    /\ Position(log, "from_request") < i
              /\ log[i] = "from_ref" => i < Position(log, "from_request")
              /\ \A pair \in VerdictSteps :
                    log[i] = pair[2] => (i > 1 /\ log[i - 1] = pair[1])
        /\ pc[r] \in {"awaiting", "ready"} => log[Len(log)] = "from_request"
        /\ (extracted[r] # None /\ ExtractedOf(r).tag = "Err") =>
              \A i \in 1..Len(log) : log[i] \notin ValueSteps
        /\ (Returned(r) /\ ExtractedOf(r).tag = "Ok" /\ Unwrap(req[r]).dec # "Modified") =>
              \E pair \in VerdictSteps : \E i \in 1..Len(log) : log[i] = pair[2]

\* a slot only moves forward through one extraction, and its log only grows
ForwardOnly(r) ==
    /\ pc'[r] # pc[r] =>
          <<pc[r], pc'[r]>> \in {<<"idle", "awaiting">>, <<"awaiting", "ready">>,
                                 <<"ready", "returned">>, <<"returned", "responded">>,
                                 <<"responded", "idle">>}
    /\ pc'[r] # "idle" =>
          /\ Len(steps'[r]) >= Len(steps[r])
          /\ SubSeq(steps'[r], 1, Len(steps[r])) = steps[r]
    /\ (extracted[r] # None /\ pc'[r] # "idle") => extracted'[r] = extracted[r]
    /\ (result[r] # None /\ pc'[r] # "idle") => result'[r] = result[r]

\* C19: within one extraction the steps run in a fixed order and at most once
\* each: the inner extractor is invoked exactly once, projection and
\* validation happen only after it has succeeded, validation is never run
\* when it fails, and no step is retried.
C19_FixedOrder ==
    /\ [](\A r \in Slots : pc[r] # "idle" => StepsInOrder(r))
    /\ [][\A r \in Slots : ForwardOnly(r)]_vars

C19_Witness ==
    \E r \in Slots :
        /\ Returned(r)
        /\ Unwrap(req[r]).dec = "Garde"
        /\ steps[r] = <<"from_ref", "from_request", "get_validate", "validate", "wrap">>

C21_Original ==
    \A r \in Slots :
        (/\ Returned(r)
         /\ DecOf(r) \in Decorators
         /\ ResultOf(r).tag = "Ok")
        => ResultOf(r).val.f0 = ExtractedOf(r).val

InPlaceDecorators == {"Modified", "ValidifiedByRef"}

\* C21 (amended): on success the wrapper holds a whole extractor value, never
\* the projected data field.  For Valid, ValidEx, Garde, Validated and the
\* context decorators it is the value the extraction step produced, metadata
\* included; for Modified and ValidifiedByRef it is that value with its data
\* field modified in place and its metadata kept; for Validified it is a value
\* rebuilt by from_validify from the payload, which the extraction step never
\* produced.
C21_HoldsInnerExtractor ==
    \A r \in Slots :
        (/\ Returned(r)
         /\ DecOf(r) \in Decorators
         /\ ResultOf(r).tag = "Ok")
        => LET w == ResultOf(r).val
               x == ExtractedOf(r).val
           IN  /\ w.f0.ext = Unwrap(req[r]).ext
               /\ w.f0.f1 = Metadata(Unwrap(req[r]).ext)
               /\ DOMAIN w.f0 = {"ext", "f0", "f1"}
               /\ DOMAIN get_validate(w.f0) = {"v0", "v1"}
               /\ CASE DecOf(r) \in InPlaceDecorators ->
                         w.f0 = [x EXCEPT !.f0 = ParametersValidifyModify(x.f0)]
                    [] DecOf(r) = "Validified" ->
                         /\ w.f0 = from_validify(x.ext,
                                ParametersValidifyModify(PayloadInto(get_payload(x))))
                         /\ get_payload(x).v0 = Some(get_validate(w.f0).v0)
                    [] OTHER -> w.f0 = x

\* a decorator over WithRejection succeeded and its wrapper carries the marker
C21_Witness ==
    \E r \in Slots :
        /\ Returned(r)
        /\ DecOf(r) \in {"Valid", "ValidifiedByRef"}
        /\ Unwrap(req[r]).ext = "WithRejection"
        /\ ResultOf(r).tag = "Ok"
        /\ ResultOf(r).val.f0.f1 = Some(PhantomData)
        /\ get_validate(ResultOf(r).val.f0) = VALID_PARAMETERS

\* ---------------------------------------------------------------------------
\* what from_request returns for request q when it is the only request
AloneOutcome(q) ==
    LET ex == InnerFromRequest(q.dec, q.ext, q.body)
        own == FromRequestOutcome(q.dec, ex, from_ref(q.dec))
    IN  IF q.with_rejection THEN WithRejectionFromRequest(own).res ELSE own.res

\* the responses request q can be answered with when it is the only request
AloneResponses(q) ==
    LET res == AloneOutcome(q)
        own == IF ~q.with_rejection THEN res
               ELSE IF res.tag = "Ok" THEN Ok(res.val.f0) ELSE Err(res.val.inner)
    IN  {IF res.tag = "Ok" THEN Response(Handler(own.val), TEXT_PLAIN, EmptyBody)
         ELSE IF q.with_rejection THEN WithRejectionIntoResponse(q.dec, res.val, flip)
         ELSE RejectionIntoResponse(q.dec, res.val, flip) : flip \in Flips(q.dec, own)}

\* C22: whatever else is in flight, the result of each request is the result
\* of processing that request alone against the same state, and its response
\* is one that processing it alone produces.
C22_Independent ==
    \A r \in Slots :
        /\ Returned(r) => ResultOf(r) = AloneOutcome(Unwrap(req[r]))
        /\ Responded(r) => ResponseOf(r) \in AloneResponses(Unwrap(req[r]))

\* two different requests were in flight together; one succeeded and the other
\* failed validation
C22_Witness ==
    \E r1, r2 \in Slots :
        /\ r1 # r2
        /\ Responded(r1) /\ Responded(r2)
        /\ Unwrap(req[r1]).dec = "ValidEx"
        /\ ResultOf(r1).tag = "Ok"
        /\ DecOf(r2) \in RejectionDecorators
        /\ ResultOf(r2).tag = "Err"
        /\ ResultOf(r2).val.variant \in {"Valid", "Report"}

\* ---------------------------------------------------------------------------
\* the decorator's own result, taken out of WithRejection when that is outermost
OwnResult(r) ==
    IF ~OuterWithRejection(r) THEN ResultOf(r)
    ELSE IF ResultOf(r).tag = "Ok" THEN Ok(ResultOf(r).val.f0)
    ELSE Err(OwnRejection(r))

IsOkOutcome(r) ==
    /\ OwnResult(r).tag = "Ok"
    /\ OwnResult(r).val.wrapper = Unwrap(req[r]).dec

IsInnerFailure(r) ==
    /\ OwnResult(r).tag = "Err"
    /\ ExtractedOf(r).tag = "Err"
    /\ IF Unwrap(req[r]).dec = "Modified"
       THEN OwnResult(r).val = ExtractedOf(r).val
       ELSE /\ OwnResult(r).val.variant = "Inner"
            /\ OwnResult(r).val.err = ExtractedOf(r).val

IsValidationFailure(r) ==
    /\ OwnResult(r).tag = "Err"
    /\ ExtractedOf(r).tag = "Ok"
    /\ Unwrap(req[r]).dec # "Modified"
    /\ OwnResult(r).val.variant \in {"Valid", "Report"}
    /\ OwnResult(r).val.err # <<>>

OutcomeKinds(r) ==
    (IF IsOkOutcome(r) THEN {"Ok"} ELSE {})
        \cup (IF IsInnerFailure(r) THEN {"Inner"} ELSE {})
        \cup (IF IsValidationFailure(r) THEN {"Validation"} ELSE {})

PcValues == {"idle", "awaiting", "ready", "returned", "responded"}

\* C23: once the inner extractor has completed, from_request returns, and what
\* it returns is exactly one of Ok(wrapper), the inner failure and the
\* validation failure; every failure returned is then converted into a
\* response with an error status; an extraction is never in any other
\* position (there is no abort).
C23_Terminates ==
    /\ [](\A r \in Slots :
            /\ pc[r] \in PcValues
            /\ Returned(r) => Cardinality(OutcomeKinds(r)) = 1
            /\ (Responded(r) /\ ResultOf(r).tag = "Err")
                  => ResponseOf(r).status \in 400..499)
    /\ \A r \in {1} : (pc[r] = "ready") ~> (pc[r] = "returned" /\ Returned(r))
    /\ \A r \in {1} : (pc[r] = "returned") ~> (pc[r] = "responded" /\ Responded(r))

\* Validified has answered a payload with a missing field
C23_Witness ==
    \E r \in Slots :
        /\ Responded(r)
        /\ DecOf(r) = "Validified"
        /\ ExtractedOf(r).tag = "Ok"
        /\ ~IsSome(get_payload(ExtractedOf(r).val).v1)
        /\ OutcomeKinds(r) = {"Validation"}
        /\ ResponseOf(r).status = VALIDATION_ERROR_STATUS

\* ---------------------------------------------------------------------------
\* C24: no step of any extraction, successful or failed, changes the router
\* state or the configuration; the arguments an extraction works with are the
\* ones the state holds.
C24_StateUnchanged ==
    /\ [][state' = state /\ features' = features]_vars
    /\ [](\A r \in Slots :
            req[r] # None => arguments[r] = from_ref(Unwrap(req[r]).dec))

\* ValidEx has accepted, under the wider arguments the state holds, a value the
\* default arguments reject, while the other request failed validation
C24_Witness ==
    \E r1, r2 \in Slots :
        /\ r1 # r2
        /\ Returned(r1) /\ Returned(r2)
        /\ state.param_validation_ctx # DefaultArguments
        /\ Unwrap(req[r1]).dec = "ValidEx"
        /\ ~Unwrap(req[r1]).with_rejection
        /\ arguments[r1] = Some(state.param_validation_ctx)
        /\ ResultOf(r1).tag = "Ok"
        /\ wrapper_arguments(ResultOf(r1).val) = state.param_validation_ctx
        /\ ParametersValidate(get_validate(ResultOf(r1).val.f0)) # <<>>
        /\ ResultOf(r2).tag = "Err"
        /\ ExtractedOf(r2).tag = "Ok"

\* ---------------------------------------------------------------------------
\* two runs of the same request against the same state and configuration
SameRequest(r1, r2) ==
    /\ r1 # r2
    /\ Responded(r1) /\ Responded(r2)
    /\ req[r1] = req[r2]

EntrySet(body) == {body.entries[i] : i \in 1..Len(body.entries)}

\* C25 (as stated): two runs of the same request produce the same result and
\* the same response, status and body.
C25_Original ==
    \A r1, r2 \in Slots :
        SameRequest(r1, r2)
        => /\ ResultOf(r1) = ResultOf(r2)
           /\ ResponseOf(r1).status = ResponseOf(r2).status
           /\ ResponseOf(r1).body = ResponseOf(r2).body

\* the body of the response to r lists a validator report of several entries
UnorderedBody(r) ==
    /\ Unwrap(req[r]).dec \in ValidatorDecorators
    /\ OwnResult(r).tag = "Err"
    /\ OwnResult(r).val.variant = "Valid"
    /\ Len(OwnResult(r).val.err) > 1

\* C25 (amended): two runs of the same request produce the same result, the
\* same status and content type and a body with the same entries; the bodies
\* are equal except that a validator report of several entries may list them
\* in a different order.
C25_DeterministicUpToOrder ==
    \A r1, r2 \in Slots :
        SameRequest(r1, r2)
        => /\ ResultOf(r1) = ResultOf(r2)
           /\ ResponseOf(r1).status = ResponseOf(r2).status
           /\ ResponseOf(r1).content_type = ResponseOf(r2).content_type
           /\ ResponseOf(r1).body.format = ResponseOf(r2).body.format
           /\ EntrySet(ResponseOf(r1).body) = EntrySet(ResponseOf(r2).body)
           /\ Len(ResponseOf(r1).body.entries) = Len(ResponseOf(r2).body.entries)
           /\ ~UnorderedBody(r1) => ResponseOf(r1).body = ResponseOf(r2).body

\* the same request was answered twice with the two violations in opposite order
C25_Witness ==
    \E r1, r2 \in Slots :
        /\ SameRequest(r1, r2)
        /\ Unwrap(req[r1]).dec = "Valid"
        /\ ResponseOf(r1).status = ResponseOf(r2).status
        /\ ResponseOf(r1).body.entries = Reverse(ResponseOf(r2).body.entries)
        /\ ResponseOf(r1).body # ResponseOf(r2).body

\* ---------------------------------------------------------------------------
\* the decorators that validate the value of Extractor<Parameters>
BackEnds ==
    {"Valid", "ValidEx", "Garde", "Validated", "ValidifiedByRef", "ContextValid",
     "ContextValidEx"}

KindOf(res) ==
    IF res.tag = "Ok" THEN "Ok"
    ELSE IF res.val.variant = "Inner" THEN "Inner"
    ELSE "Validation"

\* the value the back-end's validation call is made on, and its verdict
BackEndValue(dec, x) ==
    IF dec = "ValidifiedByRef" THEN ParametersValidifyModify(get_modify(x))
    ELSE get_validate(x)
Verdict(dec, x) == DeclaredReport(dec, BackEndValue(dec, x)) = <<>>

ExpectedKind(ex, passes) ==
    IF ex.tag = "Err" THEN "Inner" ELSE IF passes THEN "Ok" ELSE "Validation"

\* the calls of a trace with the modification calls left out and the calls
\* with arguments named as the calls without
NotModifyStep(s) == s \notin {"get_modify", "modify"}
Canon(s) ==
    IF s = "get_validate_args" THEN "get_validate"
    ELSE IF s = "validate_args" THEN "validate"
    ELSE s
Skeleton(trace) ==
    LET t == SelectSeq(trace, NotModifyStep)
    IN  [i \in 1..Len(t) |-> Canon(t[i])]

\* C26: handed the same result of the inner extractor, any two back-ends whose
\* validation calls give the same verdict return the same kind of outcome,
\* Inner for a failed inner extraction, Validation for a failed verdict and Ok
\* otherwise, through the same calls in the same order (project, validate,
\* wrap) apart from the modification that precedes validation in
\* ValidifiedByRef; Validified, handed a payload, returns the kind its
\* validify_from verdict gives.
C26_SameOutcomeKind ==
    \A r \in Slots :
        /\ (extracted[r] # None /\ Unwrap(req[r]).dec # "Validified")
           => LET ex == ExtractedOf(r)
              IN  \A d1, d2 \in BackEnds :
                     LET o1 == FromRequestOutcome(d1, ex, from_ref(d1))
                         o2 == FromRequestOutcome(d2, ex, from_ref(d2))
                     IN  /\ KindOf(o1.res) =
                              ExpectedKind(ex, ex.tag = "Ok" /\ Verdict(d1, ex.val))
                         /\ (ex.tag = "Err" \/ Verdict(d1, ex.val) = Verdict(d2, ex.val))
                               => /\ KindOf(o1.res) = KindOf(o2.res)
                                  /\ Skeleton(o1.trace) = Skeleton(o2.trace)
        /\ (Returned(r) /\ Unwrap(req[r]).dec = "Validified")
           => KindOf(OwnResult(r)) =
                 ExpectedKind(ExtractedOf(r),
                              /\ ExtractedOf(r).tag = "Ok"
                              /\ validify_from(get_payload(ExtractedOf(r).val)).tag = "Ok")

\* ValidEx rejected a value that Garde and ValidifiedByRef reject as well
C26_Witness ==
    \E r \in Slots :
        /\ Returned(r)
        /\ DecOf(r) = "ValidEx"
        /\ ResultOf(r).tag = "Err"
        /\ KindOf(ResultOf(r)) = "Validation"
        /\ ExtractedOf(r).tag = "Ok"
        /\ ~Verdict("Garde", ExtractedOf(r).val)
        /\ ~Verdict("ValidifiedByRef", ExtractedOf(r).val)

\* ---------------------------------------------------------------------------
\* the contexts the program holds: the one of the state and the ones read
\* from it by the extractions in flight
Contexts ==
    {state.validation_context}
        \cup {Unwrap(arguments[r]) :
                r \in {s \in Slots : /\ req[s] # None
                                     /\ Unwrap(req[s]).dec \in ContextDecorators}}

\* C27: with_arguments and without_arguments keep the response_builder of the
\* context they are applied to and set only the arguments, to the given ones
\* and to () respectively; custom, string and json store the given or named
\* builder, with () as arguments.
C27_BuilderKept ==
    /\ \A ctx \in Contexts :
          /\ without_arguments(ctx) = [ctx EXCEPT !.arguments = Unit]
          /\ \A a \in ArgumentsSet :
                with_arguments(ctx, a) = [ctx EXCEPT !.arguments = a]
    /\ \A b \in ResponseBuilders : custom(b) = [response_builder |-> b, arguments |-> Unit]
    /\ string = [response_builder |-> "string", arguments |-> Unit]
    /\ json = [response_builder |-> "json", arguments |-> Unit]
    /\ \A r \in Slots :
          (req[r] # None /\ Unwrap(req[r]).dec = "ContextValid")
          => Unwrap(arguments[r]).response_builder
                = state.validation_context.response_builder

\* Valid of lib.rs works with the context of a state that was built with a
\* custom builder and arguments: its context has the builder and no arguments
C27_Witness ==
    \E r \in Slots :
        /\ Returned(r)
        /\ Unwrap(req[r]).dec = "ContextValid"
        /\ state.validation_context = with_arguments(custom("custom"), DefaultArguments)
        /\ Unwrap(arguments[r]) = custom("custom")
        /\ Unwrap(arguments[r]) # state.validation_context

\* ---------------------------------------------------------------------------
\* C28: the response of Modified(inner) is the response the inner value makes
\* after modify() has been applied to its data: it carries the modified data,
\* which modify() leaves as it is, and it is made whether or not the data
\* satisfies the validation rules.
C28_ModifyThenRespond ==
    unit_out # None
    => LET given == Unwrap(unit_inner)
           after == [given EXCEPT !.f0 = Modify(get_modify(given))]
           resp == Unwrap(unit_out)
       IN  /\ resp = JsonValueIntoResponse(after)
           /\ resp.status = OK
           /\ resp.body.entries = <<Modify(given.f0)>>
           /\ Modify(resp.body.entries[1]) = resp.body.entries[1]

\* a value that violates the rules and is changed by modify() was answered
C28_Witness ==
    /\ unit_out # None
    /\ get_modify(Unwrap(unit_inner)) = INVALID_PARAMETERS_VALIDIFY
    /\ ParametersValidifyValidate(INVALID_PARAMETERS_VALIDIFY) # <<>>
    /\ Unwrap(unit_out).status = OK
    /\ Unwrap(unit_out).body.entries[1].v1 = to_lowercase(ABCDEFGHIJKLMN)

\* ---------------------------------------------------------------------------
\* C29: the three projections of an extractor value give the same sub-value,
\* its data field, whatever metadata the value carries; ValidifiedByRef
\* therefore validates the very value it has modified, the one its wrapper then
\* holds; and a decorator that only projects wraps the extractor value as it
\* was extracted.
C29_SameProjection ==
    \A r \in Slots :
        (/\ Returned(r)
         /\ DecOf(r) \in Decorators \ {"Validified"}
         /\ ExtractedOf(r).tag = "Ok")
        => LET x == ExtractedOf(r).val
               m == ParametersValidifyModify(get_modify(x))
           IN  /\ get_validate(x) = x.f0
               /\ get_validate_args(x) = get_validate(x)
               /\ get_modify(x) = get_validate(x)
               /\ \A md \in {None, Some(PhantomData)} :
                     get_validate([x EXCEPT !.f1 = md]) = get_validate(x)
               /\ DecOf(r) = "ValidifiedByRef"
                     => /\ (ResultOf(r).tag = "Ok") = (ParametersValidifyValidate(m) = <<>>)
                        /\ ResultOf(r).tag = "Ok" => get_validate(ResultOf(r).val.f0) = m
                        /\ ResultOf(r).tag = "Err" =>
                              ResultOf(r).val.err = ParametersValidifyValidate(m)
               /\ (DecOf(r) \notin ModifyingDecorators /\ ResultOf(r).tag = "Ok")
                     => ResultOf(r).val.f0 = x

\* ValidifiedByRef over WithRejection has modified and validated the data
\* field and kept the marker
C29_Witness ==
    \E r \in Slots :
        /\ Returned(r)
        /\ DecOf(r) = "ValidifiedByRef"
        /\ Unwrap(req[r]).ext = "WithRejection"
        /\ ResultOf(r).tag = "Ok"
        /\ get_modify(ExtractedOf(r).val) = VALID_PARAMETERS_VALIDIFY
        /\ get_validate(ResultOf(r).val.f0).v1 = to_lowercase(ABCDEFG)
        /\ ResultOf(r).val.f0.f1 = Some(PhantomData)

====
